---------------------------- MODULE Spec2Model ----------------------------
(***************************************************************************)
(* A model of text_history.py: a versioned text (TextHistory) edited       *)
(* through Insert / Delete / Replace actions, with the log of committed    *)
(* actions and the range query get_actions, which compacts its slice with  *)
(* optimize.                                                               *)
(*                                                                         *)
(* Python strings are sequences of one-character strings.  A Python        *)
(* object reference to an action of the log is the index of that action    *)
(* in the log: get_actions builds a new list, but of the same objects, and *)
(* the merge methods assign to the fields of those objects.                *)
(***************************************************************************)
EXTENDS Integers, Sequences, FiniteSets, TLC

VARIABLES
    text,       \* TextHistory._text
    version,    \* TextHistory._version
    actions,    \* TextHistory._actions: the live log, a sequence of action objects
    init,       \* the arguments the TextHistory was constructed with
    queries,    \* the number of get_actions calls made so far
    call,       \* the last call made on the TextHistory, its pre-state and outcome
    thr         \* per thread: the get_actions call it is in, statement by statement

vars == <<text, version, actions, init, queries, call, thr>>

---------------------------------------------------------------------------
(* Bounds and input sets *)

\* No edit is started at or beyond this version.
MaxVersion == 3

\* No more than this many get_actions calls are made (each one may add to
\* the length of a Delete of the log, without limit).
MaxQueries == 2

\* The construction arguments tried: <<text, version>>.
InitArgs == { << <<"x", "y", "z">>, 0 >>, << <<>>, 1 >> }

\* Optional arguments: None is the empty sequence, Some(n) the sequence <<n>>.
None == <<>>
Some(n) == <<n>>

\* The arguments of the calls tried: <<text, pos>>, <<pos, length>>,
\* <<from_version, to_version>>.
InsertArgs == { << <<"a">>, None >>, << <<"a">>, Some(1) >>, << <<"a">>, Some(-1) >> }
DeleteArgs == { <<0, 1>>, <<0, 2>>, <<1, 1>>, <<1, 5>>, <<-1, 1>>, <<0, -1>> }
ReplaceArgs == { << <<"a">>, Some(0) >>, << <<"b", "b">>, Some(0) >>,
                 << <<"a">>, None >>, << <<"b", "b">>, Some(2) >>,
                 << <<"a">>, Some(-1) >> }
QueryArgs == { <<None, None>>, <<Some(-1), None>>, <<None, Some(-1)>>,
               <<Some(2), Some(1)>> }
              \cup { <<Some(a), Some(b)>> : a \in 0..1, b \in 0..MaxVersion }

---------------------------------------------------------------------------
(* Python helpers *)

Min(a, b) == IF a <= b THEN a ELSE b
Max(a, b) == IF a >= b THEN a ELSE b

\* s[:n] for n >= 0
SliceTo(s, n) == SubSeq(s, 1, Min(n, Len(s)))
\* s[n:] for n >= 0
SliceFrom(s, n) == SubSeq(s, Min(n, Len(s)) + 1, Len(s))

\* Outcomes of a call: a returned value, or a raised exception.  Every
\* exception of the source is a ValueError; its kind is named after the
\* message, in the words of the error table of the specification.
\* The one exception that is not a ValueError is the IndexError of
\* self._actions[-1] on an empty list.
Ok(v) == [err |-> "none", val |-> v]
Raise(e) == [err |-> e]

---------------------------------------------------------------------------
(* Action and its variants *)

\* Action.__init__ that lets from_version = to_version through
Action_init_AllowEmpty(from_version, to_version) ==
    IF from_version > to_version \/ from_version < 0 \/ to_version < 0
    THEN "InvalidVersionRange"
    ELSE "none"

\* Action.__init__: the version range check.
Action_init(from_version, to_version) ==
    IF from_version >= to_version \/ from_version < 0 \/ to_version < 0
    THEN "InvalidVersionRange"
    ELSE "none"

\* InsertAction.__init__ (pos already an integer)
InsertAction(txt, pos, from_version, to_version) ==
    IF pos < 0 THEN Raise("InvalidPosition")
    ELSE IF Action_init(from_version, to_version) # "none"
    THEN Raise(Action_init(from_version, to_version))
    ELSE Ok([kind |-> "Insert", text |-> txt, pos |-> pos,
             from_version |-> from_version, to_version |-> to_version])

\* DeleteAction.__init__
DeleteAction(pos, length, from_version, to_version) ==
    IF pos < 0 \/ length < 0 THEN Raise("InvalidPosition")
    ELSE IF Action_init(from_version, to_version) # "none"
    THEN Raise(Action_init(from_version, to_version))
    ELSE Ok([kind |-> "Delete", pos |-> pos, length |-> length,
             from_version |-> from_version, to_version |-> to_version])

\* ReplaceAction.__init__ (pos already an integer)
ReplaceAction(txt, pos, from_version, to_version) ==
    IF pos < 0 THEN Raise("InvalidPosition")
    ELSE IF Action_init(from_version, to_version) # "none"
    THEN Raise(Action_init(from_version, to_version))
    ELSE Ok([kind |-> "Replace", text |-> txt, pos |-> pos,
             from_version |-> from_version, to_version |-> to_version])

\* InsertAction.apply
InsertAction_apply(act, apply_to) ==
    IF Len(apply_to) < act.pos THEN Raise("InvalidPosition")
    ELSE Ok(SliceTo(apply_to, act.pos) \o act.text \o SliceFrom(apply_to, act.pos))

\* DeleteAction.apply that tests the span before the position
DeleteAction_apply_SpanFirst(act, apply_to) ==
    IF act.pos + act.length > Len(apply_to) THEN Raise("InvalidRange")
    ELSE IF act.pos > Len(apply_to) THEN Raise("InvalidPosition")
    ELSE Ok(SliceTo(apply_to, act.pos) \o SliceFrom(apply_to, act.pos + act.length))

\* DeleteAction.apply
DeleteAction_apply(act, apply_to) ==
    IF act.pos > Len(apply_to) THEN Raise("InvalidPosition")
    ELSE IF act.pos + act.length > Len(apply_to) THEN Raise("InvalidRange")
    ELSE Ok(SliceTo(apply_to, act.pos) \o SliceFrom(apply_to, act.pos + act.length))

\* ReplaceAction.apply that splices the text in without overwriting
ReplaceAction_apply_NoOverwrite(act, apply_to) ==
    IF Len(apply_to) < act.pos THEN Raise("InvalidPosition")
    ELSE Ok(SliceTo(apply_to, act.pos) \o act.text \o SliceFrom(apply_to, act.pos))

\* ReplaceAction.apply
ReplaceAction_apply(act, apply_to) ==
    IF Len(apply_to) < act.pos THEN Raise("InvalidPosition")
    ELSE Ok(SliceTo(apply_to, act.pos) \o act.text
            \o SliceFrom(apply_to, act.pos + Len(act.text)))

\* act.apply(apply_to), dispatched on the class of act
apply(act, apply_to) ==
    CASE act.kind = "Insert" -> InsertAction_apply(act, apply_to)
      [] act.kind = "Delete" -> DeleteAction_apply(act, apply_to)
      [] act.kind = "Replace" -> ReplaceAction_apply(act, apply_to)

---------------------------------------------------------------------------
(* Merge policy.  Each merge_with_X(self, action) returns whether it       *)
(* merged, and the object `action` as the method leaves it (`self` is      *)
(* never assigned to).                                                     *)

NoMerge(action) == [merged |-> FALSE, action |-> action]

\* DeleteAction.merge_with_delete that keeps the length of `action`
merge_with_delete_KeepLength(self, action) ==
    IF self.pos = action.pos
    THEN [merged |-> TRUE,
          action |-> [action EXCEPT !.to_version = self.to_version]]
    ELSE NoMerge(action)

\* DeleteAction.merge_with_delete that leaves the version range alone
merge_with_delete_KeepRange(self, action) ==
    IF self.pos = action.pos
    THEN [merged |-> TRUE,
          action |-> [action EXCEPT !.length = action.length + self.length]]
    ELSE NoMerge(action)

\* DeleteAction.merge_with_delete
DeleteAction_merge_with_delete(self, action) ==
    IF self.pos = action.pos
    THEN [merged |-> TRUE,
          action |->
            IF action.from_version < self.from_version
            THEN [action EXCEPT !.length = action.length + self.length,
                                !.to_version = self.to_version]
            ELSE [action EXCEPT !.length = action.length + self.length,
                                !.from_version = self.from_version]]
    ELSE NoMerge(action)

\* ReplaceAction.merge_with_replace with the length test turned round
merge_with_replace_EarlierLonger(self, action) ==
    IF self.pos = action.pos /\ Len(action.text) >= Len(self.text)
    THEN [merged |-> TRUE,
          action |->
            IF action.to_version < self.to_version
            THEN [action EXCEPT !.to_version = self.to_version,
                                !.text = self.text]
            ELSE [action EXCEPT !.from_version = self.from_version]]
    ELSE NoMerge(action)

\* ReplaceAction.merge_with_replace
ReplaceAction_merge_with_replace(self, action) ==
    IF self.pos = action.pos /\ Len(self.text) >= Len(action.text)
    THEN [merged |-> TRUE,
          action |->
            IF action.to_version < self.to_version
            THEN [action EXCEPT !.to_version = self.to_version,
                                !.text = self.text]
            ELSE [action EXCEPT !.from_version = self.from_version]]
    ELSE NoMerge(action)

\* merge_with_insert that merges two Inserts at the same pos
merge_with_insert_SamePos(self, action) ==
    IF self.kind = "Insert" /\ self.pos = action.pos
    THEN [merged |-> TRUE,
          action |-> [action EXCEPT !.text = action.text \o self.text,
                                    !.to_version = self.to_version]]
    ELSE NoMerge(action)

\* self.merge_with_insert(action): None in all three classes
merge_with_insert(self, action) == NoMerge(action)

\* self.merge_with_delete(action), dispatched on the class of self
merge_with_delete(self, action) ==
    IF self.kind = "Delete" THEN DeleteAction_merge_with_delete(self, action)
    ELSE NoMerge(action)

\* self.merge_with_replace(action), dispatched on the class of self
merge_with_replace(self, action) ==
    IF self.kind = "Replace" THEN ReplaceAction_merge_with_replace(self, action)
    ELSE NoMerge(action)

\* f_act.merge(s_act): each class asks s_act to merge with its own kind;
\* the object that may be assigned to is f_act.
merge(f_act, s_act) ==
    CASE f_act.kind = "Insert" -> merge_with_insert(s_act, f_act)
      [] f_act.kind = "Delete" -> merge_with_delete(s_act, f_act)
      [] f_act.kind = "Replace" -> merge_with_replace(s_act, f_act)

---------------------------------------------------------------------------
(* TextHistory.  A TextHistory state is [text, actions, version].          *)

\* actions.pop(i) for a 1-based index i
Pop(s, i) == SubSeq(s, 1, i - 1) \o SubSeq(s, i + 1, Len(s))

\* TextHistory.optimize on the list `slice` of references into the objects
\* `objs`, from cursor idx (0-based, as in the source).  `checks` records
\* every pairwise merge check made: the two operands as they were, whether
\* they merged, and the first operand as the check left it.
RECURSIVE optimize(_, _, _, _)
optimize(objs, slice, idx, checks) ==
    IF idx < Len(slice) - 1
    THEN LET f_ref == slice[idx + 1]
             s_ref == slice[idx + 2]
             m == merge(objs[f_ref], objs[s_ref])
             chk == [f |-> objs[f_ref], s |-> objs[s_ref],
                     merged |-> m.merged, into |-> m.action]
         IN  IF m.merged
             THEN optimize([objs EXCEPT ![f_ref] = m.action],
                           Pop(slice, idx + 2), idx + 1, Append(checks, chk))
             ELSE optimize(objs, slice, idx + 1, Append(checks, chk))
    ELSE [objs |-> objs, slice |-> slice, checks |-> checks]

\* The filter of get_actions with a strict upper bound
Select_StrictUpper(log, from_version, to_version, inf) ==
    LET InRange(i) == /\ log[i].from_version >= from_version
                      /\ (inf \/ log[i].to_version < to_version)
    IN  SelectSeq([i \in 1..Len(log) |-> i], InRange)

\* The filter loop of get_actions: the references, in log order, to the
\* actions within the bounds (inf: no upper bound).
Select(log, from_version, to_version, inf) ==
    LET InRange(i) == /\ log[i].from_version >= from_version
                      /\ (inf \/ log[i].to_version <= to_version)
    IN  SelectSeq([i \in 1..Len(log) |-> i], InRange)

\* TextHistory.get_actions on the log, with optional bounds.  Returns the
\* outcome, the objects of the log as the call leaves them, and the merge
\* checks made.
get_actions(log, fv, tv) ==
    LET from_version == IF fv = None THEN 0 ELSE fv[1]
        inf == (tv = None)
        to_version == IF inf THEN 0 ELSE tv[1]
        failed(e) == [out |-> Raise(e), objs |-> log, checks |-> <<>>]
    IN  IF from_version < 0 \/ (~inf /\ to_version < 0)
        THEN failed("InvalidRange")
        ELSE IF ~inf /\ from_version > to_version
        THEN failed("InvalidRange")
        ELSE IF ~inf /\ Len(log) = 0
        THEN failed("IndexError")
        ELSE IF ~inf /\ to_version > log[Len(log)].to_version
        THEN failed("InvalidRange")
        ELSE LET o == optimize(log, Select(log, from_version, to_version, inf),
                               0, <<>>)
             IN  [out |-> Ok([i \in 1..Len(o.slice) |-> o.objs[o.slice[i]]]),
                  objs |-> o.objs, checks |-> o.checks]

\* TextHistory.action that counts the version up from the action's
\* from_version
action_VersionFromStart(st, act) ==
    IF act.from_version # st.version
    THEN [st |-> st, out |-> Raise("VersionMismatch")]
    ELSE LET r == apply(act, st.text)
         IN  IF r.err # "none"
             THEN [st |-> st, out |-> r]
             ELSE [st |-> [text |-> r.val,
                           actions |-> Append(st.actions, act),
                           version |-> act.from_version + 1],
                   out |-> Ok(act.to_version)]

\* TextHistory.action that always advances the version by one
action_VersionPlusOne(st, act) ==
    IF act.from_version # st.version
    THEN [st |-> st, out |-> Raise("VersionMismatch")]
    ELSE LET r == apply(act, st.text)
         IN  IF r.err # "none"
             THEN [st |-> st, out |-> r]
             ELSE [st |-> [text |-> r.val,
                           actions |-> Append(st.actions, act),
                           version |-> st.version + 1],
                   out |-> Ok(st.version + 1)]

\* TextHistory.action that records the action before applying it
action_AppendBeforeApply(st, act) ==
    IF act.from_version # st.version
    THEN [st |-> st, out |-> Raise("VersionMismatch")]
    ELSE LET r == apply(act, st.text)
             logged == [st EXCEPT !.actions = Append(st.actions, act)]
         IN  IF r.err # "none"
             THEN [st |-> logged, out |-> r]
             ELSE [st |-> [text |-> r.val,
                           actions |-> logged.actions,
                           version |-> act.to_version],
                   out |-> Ok(act.to_version)]

\* TextHistory.action
TextHistory_action(st, act) ==
    IF act.from_version # st.version
    THEN [st |-> st, out |-> Raise("VersionMismatch")]
    ELSE LET r == apply(act, st.text)
         IN  IF r.err # "none"
             THEN [st |-> st, out |-> r]
             ELSE [st |-> [text |-> r.val,
                           actions |-> Append(st.actions, act),
                           version |-> act.to_version],
                   out |-> Ok(act.to_version)]

\* self.action(act) for an action whose construction may have raised
Committed(st, built) ==
    IF built.err # "none" THEN [st |-> st, out |-> built]
    ELSE TextHistory_action(st, built.val)

\* TextHistory.insert that takes an omitted pos for the start of the text
insert_NoneAsStart(st, txt, pos) ==
    LET p == IF pos = None THEN 0 ELSE pos[1]
    IN  Committed(st, InsertAction(txt, p, st.version, st.version + 1))

\* TextHistory.insert
TextHistory_insert(st, txt, pos) ==
    LET p == IF pos = None THEN Len(st.text) ELSE pos[1]
    IN  Committed(st, InsertAction(txt, p, st.version, st.version + 1))

\* TextHistory.delete that builds an action spanning two versions
delete_TwoVersions(st, pos, length) ==
    Committed(st, DeleteAction(pos, length, st.version, st.version + 2))

\* TextHistory.delete
TextHistory_delete(st, pos, length) ==
    Committed(st, DeleteAction(pos, length, st.version, st.version + 1))

\* TextHistory.replace
TextHistory_replace(st, txt, pos) ==
    LET p == IF pos = None THEN Len(st.text) ELSE pos[1]
    IN  Committed(st, ReplaceAction(txt, p, st.version, st.version + 1))

---------------------------------------------------------------------------
(* The state machine: one step per call on the TextHistory.                *)

State == [text |-> text, actions |-> actions, version |-> version]

\* The step of a call `op` with arguments `args` that leaves the
\* TextHistory as r.st with outcome r.out.
Finish(op, args, r, checks) ==
    /\ text' = r.st.text
    /\ actions' = r.st.actions
    /\ version' = r.st.version
    /\ call' = [op |-> op, args |-> args, pre |-> State,
                err |-> r.out.err,
                ret |-> IF r.out.err = "none" THEN r.out.val ELSE None,
                checks |-> checks]
    /\ UNCHANGED <<init, thr>>

\* The threads that may call get_actions, and a thread that is in no call.
Threads == {1, 2}
NoCall == [pc |-> "idle", args |-> <<>>, log0 |-> <<>>, input |-> <<>>,
           slice |-> <<>>, idx |-> 0, iters |-> 0, out |-> Raise("pending")]

Init ==
    /\ thr = [t \in Threads |-> NoCall]
    /\ \E a \in InitArgs : text = a[1] /\ version = a[2]
    /\ actions = <<>>
    /\ init = [text |-> text, version |-> version]
    /\ queries = 0
    /\ call = [op |-> "new", args |-> <<>>,
               pre |-> [text |-> text, actions |-> <<>>, version |-> version],
               err |-> "none", ret |-> None, checks |-> <<>>]

Insert ==
    /\ version < MaxVersion
    /\ \E a \in InsertArgs :
         Finish("insert", a, TextHistory_insert(State, a[1], a[2]), <<>>)
    /\ UNCHANGED queries

Delete ==
    /\ version < MaxVersion
    /\ \E a \in DeleteArgs :
         Finish("delete", a, TextHistory_delete(State, a[1], a[2]), <<>>)
    /\ UNCHANGED queries

Replace ==
    /\ version < MaxVersion
    /\ \E a \in ReplaceArgs :
         Finish("replace", a, TextHistory_replace(State, a[1], a[2]), <<>>)
    /\ UNCHANGED queries

\* The payloads of the actions a caller builds to commit directly.
CommitPayloads ==
    { [kind |-> "Delete", pos |-> 0, length |-> 1] }

\* The constructor call for a payload and a version range
Build(p, from_version, to_version) ==
    CASE p.kind = "Insert" -> InsertAction(p.text, p.pos, from_version, to_version)
      [] p.kind = "Delete" -> DeleteAction(p.pos, p.length, from_version, to_version)
      [] p.kind = "Replace" -> ReplaceAction(p.text, p.pos, from_version, to_version)

\* A caller constructs an action and passes it to TextHistory.action.
Commit ==
    /\ version < MaxVersion
    /\ \E p \in CommitPayloads, fv \in {version - 1, version}, d \in 0..2 :
         /\ fv + d <= MaxVersion
         /\ Finish("action", <<p, fv, fv + d>>,
                   Committed(State, Build(p, fv, fv + d)), <<>>)
    /\ UNCHANGED queries

GetActions ==
    /\ queries < MaxQueries
    /\ \E q \in QueryArgs :
         LET g == get_actions(actions, q[1], q[2])
         IN  Finish("get_actions", q,
                    [st |-> [text |-> text, actions |-> g.objs, version |-> version],
                     out |-> g.out],
                    g.checks)
    /\ queries' = queries + 1

Next == Insert \/ Delete \/ Replace \/ Commit \/ GetActions

Spec == Init /\ [][Next]_vars

\* The same machine without direct commits: every edit is an insert, a
\* delete or a replace.
NextEdits == Insert \/ Delete \/ Replace \/ GetActions

SpecEdits == Init /\ [][NextEdits]_vars

---------------------------------------------------------------------------
(* Properties *)

ApplyFailed(act, t) == apply(act, t).err # "none"

\* The action object a direct commit was called with, if its construction
\* succeeded.
CommitBuilt == Build(call.args[1], call.args[2], call.args[3])

\* C1: commit (TextHistory.action) is version-gated.  An action whose
\* from_version differs from the current version is refused with
\* VersionMismatch; when from_version is the current version and apply
\* succeeds, the text becomes act.apply(old text), the action is appended
\* as the last log entry, the version becomes act.to_version and that
\* value is returned.
C1_CommitVersionGated ==
    (call.op = "action" /\ CommitBuilt.err = "none") =>
        LET act == CommitBuilt.val
            pre == call.pre
        IN  /\ act.from_version # pre.version => call.err = "VersionMismatch"
            /\ (act.from_version = pre.version /\ ~ApplyFailed(act, pre.text)) =>
                 /\ call.err = "none"
                 /\ text = apply(act, pre.text).val
                 /\ actions = Append(pre.actions, act)
                 /\ version = act.to_version
                 /\ call.ret = act.to_version

\* A commit of an action spanning two versions succeeded on a non-empty log.
C1_Witness ==
    /\ call.op = "action"
    /\ call.err = "none"
    /\ call.ret = call.pre.version + 2
    /\ Len(actions) >= 2

\* C2: a failed edit (insert, delete, replace or commit that raises, for
\* whatever reason) leaves text, version and the log exactly as they were.
C2_FailedEditAllOrNothing ==
    (call.op \in {"insert", "delete", "replace", "action"} /\ call.err # "none") =>
        State = call.pre

\* delete(1, 5) on "xyz" at version 0 raised InvalidRange.
C2_Witness ==
    /\ call.op = "delete"
    /\ call.args = <<1, 5>>
    /\ call.err = "InvalidRange"
    /\ call.pre.text = <<"x", "y", "z">>
    /\ call.pre.version = 0

\* C3: with insert / delete / replace as the only edits, each successful
\* edit returns the previous version plus 1, and in every reachable state
\* version = initial version + len(log), whatever get_actions calls and
\* failed edits happened in between.
C3_VersionCountsEdits ==
    /\ version = init.version + Len(actions)
    /\ (call.op \in {"insert", "delete", "replace"} /\ call.err = "none") =>
         /\ call.ret = call.pre.version + 1
         /\ version = call.ret

\* From initial version 1, a second edit succeeded after a query was made.
C3_Witness ==
    /\ init.version = 1
    /\ call.op \in {"insert", "delete", "replace"}
    /\ call.err = "none"
    /\ Len(actions) = 2
    /\ queries > 0

\* C4: get_actions is read-only on the TextHistory: after any get_actions
\* call, text, version and every field of every entry of the live log are
\* what they were before the call.
C4_GetActionsReadOnly ==
    call.op = "get_actions" => State = call.pre

\* The actions of `acts` applied in order to the text t
RECURSIVE Replay(_, _)
Replay(acts, t) ==
    IF acts = <<>> THEN Ok(t)
    ELSE LET r == apply(Head(acts), t)
         IN  IF r.err # "none" THEN r ELSE Replay(Tail(acts), r.val)

MergedIn(checks) == { i \in DOMAIN checks : checks[i].merged }

C6_GetActionsRepeatable ==
    [][ ( /\ call.op = "get_actions"
          /\ call'.op = "get_actions"
          /\ call'.args = call.args
          /\ queries' = queries + 1 ) =>
            (call'.err = call.err /\ call'.ret = call.ret) ]_vars

\* The bounds of a get_actions call are refused by the range rules:
\* a negative bound, from_version > to_version, or to_version beyond the
\* latest committed version.
BadBounds(fv, tv, latest) ==
    \/ (fv # None /\ fv[1] < 0)
    \/ (tv # None /\ tv[1] < 0)
    \/ (fv # None /\ tv # None /\ fv[1] > tv[1])
    \/ (tv # None /\ tv[1] > latest)

\* C7: get_actions fails with InvalidRange, leaving the state unchanged,
\* whenever a bound is negative, from_version > to_version, or to_version
\* exceeds the latest committed version, in every reachable state.
C7_GetActionsRangeErrors ==
    (call.op = "get_actions"
       /\ BadBounds(call.args[1], call.args[2], call.pre.version)) =>
        (call.err = "InvalidRange" /\ State = call.pre)

\* The same, on a log that holds at least one action.
C7_OnNonEmptyLog ==
    (call.op = "get_actions" /\ call.pre.actions # <<>>
       /\ BadBounds(call.args[1], call.args[2], call.pre.version)) =>
        (call.err = "InvalidRange" /\ State = call.pre)

\* The entries of the log within the bounds of a query, in log order
Within(log, fv, tv) ==
    LET a == IF fv = None THEN 0 ELSE fv[1]
        InBounds(e) == /\ e.from_version >= a
                       /\ (tv = None \/ e.to_version <= tv[1])
    IN  SelectSeq(log, InBounds)

\* Two adjacent actions that the merge rules of the classes let merge:
\* two Deletes at one pos, or two Replaces at one pos of which the later
\* text is at least as long as the earlier.
Mergeable(f, s) ==
    \/ f.kind = "Delete" /\ s.kind = "Delete" /\ f.pos = s.pos
    \/ f.kind = "Replace" /\ s.kind = "Replace" /\ f.pos = s.pos
         /\ Len(s.text) >= Len(f.text)

ExampleDeletes ==
    << [kind |-> "Delete", pos |-> 5, length |-> 2,
        from_version |-> 0, to_version |-> 1],
       [kind |-> "Delete", pos |-> 5, length |-> 3,
        from_version |-> 1, to_version |-> 2] >>

\* C9: the merge check on two adjacent Deletes succeeds iff both have the
\* same pos; the surviving Delete, which is returned, has that pos, the
\* sum of the two lengths, the smaller from_version and the larger
\* to_version.  get_actions() on the log of the example returns the single
\* Delete(pos=5, length=5, 0->2).
C9_DeleteDeleteMerge ==
    /\ \A i \in DOMAIN call.checks :
         LET c == call.checks[i]
         IN  (c.f.kind = "Delete" /\ c.s.kind = "Delete") =>
               /\ c.merged <=> (c.f.pos = c.s.pos)
               /\ c.merged =>
                    /\ c.into = [kind |-> "Delete", pos |-> c.s.pos,
                                 length |-> c.f.length + c.s.length,
                                 from_version |->
                                     Min(c.f.from_version, c.s.from_version),
                                 to_version |->
                                     Max(c.f.to_version, c.s.to_version)]
                    /\ \E j \in DOMAIN call.ret : call.ret[j] = c.into
    /\ get_actions(ExampleDeletes, None, None).out
         = Ok(<< [kind |-> "Delete", pos |-> 5, length |-> 5,
                  from_version |-> 0, to_version |-> 2] >>)

\* In a second query, two Deletes merged of which the first had already
\* absorbed another one.
C9_Witness ==
    /\ call.op = "get_actions"
    /\ queries = 2
    /\ \E i \in DOMAIN call.checks :
         LET c == call.checks[i]
         IN  /\ c.merged
             /\ c.f.kind = "Delete"
             /\ c.f.to_version > c.f.from_version + 1
             /\ c.s.length > 0
             /\ c.into.length > c.f.length

\* C10 as stated: two adjacent Replaces merge iff they have the same pos
\* and the EARLIER text is at least as long as the later text.
C10_ReplaceMergeableEarlierLonger ==
    \A i \in DOMAIN call.checks :
        LET c == call.checks[i]
        IN  (c.f.kind = "Replace" /\ c.s.kind = "Replace") =>
              (c.merged <=> (c.f.pos = c.s.pos /\ Len(c.f.text) >= Len(c.s.text)))

\* C10, amended: two adjacent Replaces (earlier one first) merge iff they
\* have the same pos and the LATER text is at least as long as the
\* earlier text.
C10_ReplaceMergeableLaterLonger ==
    \A i \in DOMAIN call.checks :
        LET c == call.checks[i]
        IN  (c.f.kind = "Replace" /\ c.s.kind = "Replace") =>
              (c.merged <=> (c.f.pos = c.s.pos /\ Len(c.s.text) >= Len(c.f.text)))

\* A Replace was merged with a later Replace at the same pos whose text
\* is strictly longer.
C10_Witness ==
    \E i \in DOMAIN call.checks :
        LET c == call.checks[i]
        IN  /\ c.f.kind = "Replace" /\ c.s.kind = "Replace"
            /\ c.f.pos = c.s.pos
            /\ Len(c.s.text) > Len(c.f.text)
            /\ c.merged

\* C11 as stated: whenever compaction merges two Replaces, in any reachable
\* state, the surviving action's from_version is the smaller of the two
\* from_versions, its to_version the larger of the two to_versions, and
\* its text is the text of the operand whose to_version is strictly later.
C11_ReplaceMergeResult ==
    \A i \in DOMAIN call.checks :
        LET c == call.checks[i]
        IN  (c.merged /\ c.f.kind = "Replace" /\ c.s.kind = "Replace") =>
              /\ c.into.from_version = Min(c.f.from_version, c.s.from_version)
              /\ c.into.to_version = Max(c.f.to_version, c.s.to_version)
              /\ c.s.to_version > c.f.to_version => c.into.text = c.s.text
              /\ c.f.to_version > c.s.to_version => c.into.text = c.f.text

\* The same for the first query on a log (no operand widened before).
C11_OnFirstQuery ==
    queries = 1 => C11_ReplaceMergeResult

\* A pair of adjacent actions that the merge rules never merge: one of the
\* two is an Insert, or one is a Delete and the other a Replace.
NeverMerging(f, s) ==
    \/ f.kind = "Insert"
    \/ s.kind = "Insert"
    \/ (f.kind = "Delete" /\ s.kind = "Replace")
    \/ (f.kind = "Replace" /\ s.kind = "Delete")

\* The references (log indices) a get_actions() without bounds returns,
\* and the objects of the log as it leaves them
FullQuery(log) == optimize(log, Select(log, 0, 0, TRUE), 0, <<>>)

\* The log entry i is returned, with all its fields as they were.
ReturnedUnchanged(log, i) ==
    /\ \E k \in DOMAIN FullQuery(log).slice : FullQuery(log).slice[k] = i
    /\ FullQuery(log).objs[i] = log[i]

IsFullQuery == call.op = "get_actions" /\ call.args = <<None, None>>

\* C12 as stated: of two adjacent actions of the log of which one is an
\* Insert, or one a Delete and the other a Replace, both appear in the
\* get_actions() result with all their fields unchanged.
C12_NeverMergingBothReturned ==
    IsFullQuery =>
        \A i \in 1..(Len(call.pre.actions) - 1) :
            NeverMerging(call.pre.actions[i], call.pre.actions[i + 1]) =>
                /\ ReturnedUnchanged(call.pre.actions, i)
                /\ ReturnedUnchanged(call.pre.actions, i + 1)

\* C12, amended: such a pair never merges with each other.  Both appear
\* in the get_actions() result with all their fields unchanged, unless the
\* first of the two is absorbed by the action before it or the second
\* absorbs the action after it (a Delete next to a Delete at the same pos,
\* a Replace next to a mergeable Replace); an Insert is always returned
\* unchanged.
C12_NeverMergingPair ==
    IsFullQuery =>
        LET log == call.pre.actions
        IN  /\ call.ret = [k \in DOMAIN FullQuery(log).slice |->
                             FullQuery(log).objs[FullQuery(log).slice[k]]]
            /\ \A i \in 1..(Len(log) - 1) :
                 NeverMerging(log[i], log[i + 1]) =>
                   /\ ~merge(log[i], log[i + 1]).merged
                   /\ (i = 1 \/ ~Mergeable(log[i - 1], log[i])) =>
                        ReturnedUnchanged(log, i)
                   /\ (i + 1 = Len(log) \/ ~Mergeable(log[i + 1], log[i + 2])) =>
                        ReturnedUnchanged(log, i + 1)
            /\ \A i \in DOMAIN log :
                 log[i].kind = "Insert" => ReturnedUnchanged(log, i)

\* get_actions() on a log with two adjacent Inserts at the same position
\* returned both.
C12_Witness ==
    /\ IsFullQuery
    /\ Len(call.pre.actions) = 3
    /\ \E i \in 1..2 :
         /\ call.pre.actions[i].kind = "Insert"
         /\ call.pre.actions[i + 1].kind = "Insert"
         /\ call.pre.actions[i].pos = call.pre.actions[i + 1].pos
         /\ \E k \in 1..(Len(call.ret) - 1) :
              /\ call.ret[k] = call.pre.actions[i]
              /\ call.ret[k + 1] = call.pre.actions[i + 1]

\* delete(pos, length) on the text t succeeds iff pos >= 0, length >= 0
\* and pos + length <= len(t), and then leaves t[:pos] + t[pos+length:].
DeleteSucceedsAsSpecified ==
    LET pos == call.args[1]
        length == call.args[2]
        t == call.pre.text
    IN  /\ call.err = "none" <=> (pos >= 0 /\ length >= 0 /\ pos + length <= Len(t))
        /\ call.err = "none" =>
             /\ text = SubSeq(t, 1, pos) \o SubSeq(t, pos + length + 1, Len(t))
             /\ Len(text) = Len(t) - length

\* C13 as stated: delete succeeds as specified; it fails with
\* InvalidPosition when pos or length is negative and with InvalidRange
\* when pos + length exceeds the text length.
C13_DeleteErrorsAsStated ==
    call.op = "delete" =>
        /\ DeleteSucceedsAsSpecified
        /\ (call.args[1] < 0 \/ call.args[2] < 0) => call.err = "InvalidPosition"
        /\ call.args[1] + call.args[2] > Len(call.pre.text) =>
             call.err = "InvalidRange"

\* C13, amended: delete succeeds as specified; it fails with
\* InvalidPosition when pos or length is negative or pos exceeds the text
\* length, and with InvalidRange when neither is negative, pos is within
\* the text and pos + length exceeds the text length.
C13_DeleteContract ==
    call.op = "delete" =>
        LET pos == call.args[1]
            length == call.args[2]
            n == Len(call.pre.text)
        IN  /\ DeleteSucceedsAsSpecified
            /\ (pos < 0 \/ length < 0 \/ pos > n) => call.err = "InvalidPosition"
            /\ (pos >= 0 /\ length >= 0 /\ pos <= n /\ pos + length > n) =>
                 call.err = "InvalidRange"

\* delete(1, 5) on the empty text was refused for its position.
C13_Witness ==
    /\ call.op = "delete"
    /\ call.args = <<1, 5>>
    /\ call.pre.text = <<>>
    /\ call.err = "InvalidPosition"

\* C14: insert(text, pos) succeeds iff 0 <= pos <= len(current text) and
\* then leaves current[:pos] + text + current[pos:]; an omitted pos is the
\* text length at call time, so insert(text) appends and never fails; a
\* negative pos or a pos beyond the text length fails with
\* InvalidPosition.  The Insert recorded in the log stores the resolved
\* integer position.
C14_InsertContract ==
    call.op = "insert" =>
        LET txt == call.args[1]
            t == call.pre.text
            pos == IF call.args[2] = None THEN Len(t) ELSE call.args[2][1]
        IN  /\ call.err = "none" <=> (0 <= pos /\ pos <= Len(t))
            /\ call.err = "none" =>
                 /\ text = SubSeq(t, 1, pos) \o txt \o SubSeq(t, pos + 1, Len(t))
                 /\ actions[Len(actions)] =
                      [kind |-> "Insert", text |-> txt, pos |-> pos,
                       from_version |-> call.pre.version,
                       to_version |-> call.pre.version + 1]
            /\ call.args[2] = None => (call.err = "none" /\ text = t \o txt)
            /\ (pos < 0 \/ pos > Len(t)) => call.err = "InvalidPosition"

\* insert("a") without a pos appended to a text that earlier edits had
\* made longer than the initial one.
C14_Witness ==
    /\ call.op = "insert"
    /\ call.args[2] = None
    /\ call.err = "none"
    /\ Len(call.pre.text) > Len(init.text)
    /\ Len(call.pre.text) > 0
    /\ actions[Len(actions)].pos = Len(call.pre.text)

\* C15: replace(text, pos) with 0 <= pos <= len(current) overwrites
\* exactly len(text) characters from pos: the result has length
\* max(len(current), pos + len(text)), holds text at pos, and the
\* characters before pos and after pos + len(text) are those of current.
\* A span past the end of the text never fails; the call fails, with
\* InvalidPosition, only when pos is negative or beyond the text length.
C15_ReplaceContract ==
    call.op = "replace" =>
        LET txt == call.args[1]
            t == call.pre.text
            pos == IF call.args[2] = None THEN Len(t) ELSE call.args[2][1]
        IN  /\ call.err = "none" <=> (0 <= pos /\ pos <= Len(t))
            /\ call.err = "none" =>
                 /\ Len(text) = Max(Len(t), pos + Len(txt))
                 /\ \A i \in 1..Len(text) :
                      text[i] = IF i <= pos THEN t[i]
                                ELSE IF i <= pos + Len(txt) THEN txt[i - pos]
                                ELSE t[i]
            /\ call.err # "none" => call.err = "InvalidPosition"

\* replace("bb", 2) on a text of three characters overwrote the last one
\* and grew the text by one.
C15_Witness ==
    /\ call.op = "replace"
    /\ call.args = << <<"b", "b">>, Some(2) >>
    /\ call.err = "none"
    /\ Len(call.pre.text) = 3
    /\ Len(text) = 4

\* C16: compaction runs to a fixpoint: the slice get_actions returns on a
\* log not queried before holds no two adjacent actions that the merge
\* policy deems mergeable (so a run of three Deletes at one pos comes back
\* as one Delete).
C16_CompactionFixpoint ==
    (call.op = "get_actions" /\ call.err = "none" /\ queries = 1) =>
        \A k \in 1..(Len(call.ret) - 1) :
            ~Mergeable(call.ret[k], call.ret[k + 1])

\* The same for logs of at most two actions, where one merge check is all
\* there is to make.
C16_OnPairs ==
    Len(call.pre.actions) <= 2 => C16_CompactionFixpoint

WellFormed(a) == 0 <= a.from_version /\ a.from_version < a.to_version

\* C19: action well-formedness.  Constructing an action with
\* from_version >= to_version or a negative bound fails, and every action
\* of the live log or returned by get_actions has
\* 0 <= from_version < to_version, in every reachable state, merges by
\* compaction included.
C19_ActionsWellFormed ==
    /\ \A i \in DOMAIN actions : WellFormed(actions[i])
    /\ (call.op = "get_actions" /\ call.err = "none") =>
         \A k \in DOMAIN call.ret : WellFormed(call.ret[k])
    /\ ( /\ call.op = "action"
         /\ (call.args[2] >= call.args[3] \/ call.args[2] < 0 \/ call.args[3] < 0) ) =>
         (CommitBuilt.err = "InvalidVersionRange" /\ call.err = "InvalidVersionRange")

\* A second query merged two Replaces through the branch that assigns
\* from_version, and raised the survivor's from_version.
C19_Witness ==
    /\ call.op = "get_actions"
    /\ queries = 2
    /\ \E i \in DOMAIN call.checks :
         /\ call.checks[i].merged
         /\ call.checks[i].into.from_version > call.checks[i].f.from_version

\* C20: on a TextHistory created with an empty log, whenever the log is
\* not empty the to_version of its last entry is the current version,
\* whatever edits, commits and get_actions calls came before.
C20_LastEntryIsVersion ==
    actions # <<>> => actions[Len(actions)].to_version = version

\* After a commit spanning two versions and one more edit, a query merged
\* the last two log entries.
C20_Witness ==
    /\ call.op = "get_actions"
    /\ Len(actions) >= 2
    /\ version > init.version + Len(actions)
    /\ \E i \in DOMAIN call.checks :
         /\ call.checks[i].merged
         /\ call.checks[i].s = call.pre.actions[Len(actions)]

---------------------------------------------------------------------------
(* get_actions statement by statement: a call is the range checks and the  *)
(* filter loop (Begin), then the iterations of the while loop of optimize  *)
(* (Iterate), then the return (Return).  A thread keeps its own list       *)
(* `slice` and cursor `idx`; the action objects are those of the live log. *)

\* The range checks of get_actions: the exception raised, or "none".
range_checks(log, fv, tv) ==
    LET from_version == IF fv = None THEN 0 ELSE fv[1]
        inf == (tv = None)
        to_version == IF inf THEN 0 ELSE tv[1]
    IN  IF from_version < 0 \/ (~inf /\ to_version < 0) THEN "InvalidRange"
        ELSE IF ~inf /\ from_version > to_version THEN "InvalidRange"
        ELSE IF ~inf /\ Len(log) = 0 THEN "IndexError"
        ELSE IF ~inf /\ to_version > log[Len(log)].to_version THEN "InvalidRange"
        ELSE "none"

\* One iteration of the while loop of optimize whose increment of the
\* cursor sits inside the if
optimize_step_AdvanceOnMerge(objs, slice, idx) ==
    LET f_ref == slice[idx + 1]
        s_ref == slice[idx + 2]
        m == merge(objs[f_ref], objs[s_ref])
    IN  IF m.merged
        THEN [objs |-> [objs EXCEPT ![f_ref] = m.action],
              slice |-> Pop(slice, idx + 2), idx |-> idx + 1]
        ELSE [objs |-> objs, slice |-> slice, idx |-> idx]

\* One iteration of the while loop of optimize
optimize_step(objs, slice, idx) ==
    LET f_ref == slice[idx + 1]
        s_ref == slice[idx + 2]
        m == merge(objs[f_ref], objs[s_ref])
    IN  IF m.merged
        THEN [objs |-> [objs EXCEPT ![f_ref] = m.action],
              slice |-> Pop(slice, idx + 2), idx |-> idx + 1]
        ELSE [objs |-> objs, slice |-> slice, idx |-> idx + 1]

\* The edits that build the logs the calls run on: <<method, arguments>>.
LogEdits ==
    { <<"delete", <<0, 1>> >>, <<"delete", <<1, 1>> >>,
      <<"replace", << <<"a">>, Some(0) >> >>,
      <<"replace", << <<"b", "b">>, Some(0) >> >>,
      <<"insert", << <<"a">>, Some(1) >> >> }

\* One edit on a TextHistory state
Edit(st, e) ==
    CASE e[1] = "insert" -> TextHistory_insert(st, e[2][1], e[2][2])
      [] e[1] = "delete" -> TextHistory_delete(st, e[2][1], e[2][2])
      [] e[1] = "replace" -> TextHistory_replace(st, e[2][1], e[2][2])

\* The TextHistory after the edits es, made in order on st; <<>> if one
\* of them fails
RECURSIVE Edited(_, _)
Edited(st, es) ==
    IF es = <<>> THEN <<st>>
    ELSE LET r == Edit(st, Head(es))
         IN  IF r.out.err # "none" THEN <<>> ELSE Edited(r.st, Tail(es))

\* A TextHistory("uvwxyz") after up to MaxVersion successful edits, no
\* get_actions call made yet.
InitEdited ==
    /\ thr = [t \in Threads |-> NoCall]
    /\ init = [text |-> <<"u", "v", "w", "x", "y", "z">>, version |-> 0]
    /\ queries = 0
    /\ \E n \in 0..MaxVersion : \E es \in [1..n -> LogEdits] :
         LET h == Edited([text |-> init.text, actions |-> <<>>, version |-> 0], es)
         IN  /\ h # <<>>
             /\ text = h[1].text
             /\ actions = h[1].actions
             /\ version = h[1].version
             /\ call = [op |-> "edits", args |-> es, pre |-> h[1],
                        err |-> "none", ret |-> None, checks |-> <<>>]

\* Thread t calls get_actions: lines 58-71.
Begin(t) ==
    /\ thr[t].pc \in {"idle", "done"}
    /\ queries < MaxQueries
    /\ queries' = queries + 1
    /\ \E q \in QueryArgs :
         LET e == range_checks(actions, q[1], q[2])
             sel == Select(actions, IF q[1] = None THEN 0 ELSE q[1][1],
                           IF q[2] = None THEN 0 ELSE q[2][1], q[2] = None)
         IN  thr' = [thr EXCEPT ![t] =
                 IF e # "none"
                 THEN [NoCall EXCEPT !.pc = "done", !.args = q,
                                     !.log0 = actions, !.out = Raise(e)]
                 ELSE [NoCall EXCEPT !.pc = "opt", !.args = q, !.log0 = actions,
                                     !.input = sel, !.slice = sel]]
    /\ UNCHANGED <<text, version, actions, init, call>>

\* Thread t runs one iteration of the while loop of optimize.
Iterate(t) ==
    /\ thr[t].pc = "opt"
    /\ thr[t].idx < Len(thr[t].slice) - 1
    /\ LET o == optimize_step(actions, thr[t].slice, thr[t].idx)
       IN  /\ actions' = o.objs
           /\ thr' = [thr EXCEPT ![t].slice = o.slice, ![t].idx = o.idx,
                                 ![t].iters = thr[t].iters + 1]
    /\ UNCHANGED <<text, version, init, queries, call>>

\* Thread t leaves the while loop and returns its list.
Return(t) ==
    /\ thr[t].pc = "opt"
    /\ ~(thr[t].idx < Len(thr[t].slice) - 1)
    /\ thr' = [thr EXCEPT ![t].pc = "done",
                          ![t].out = Ok([k \in DOMAIN thr[t].slice |->
                                            actions[thr[t].slice[k]]])]
    /\ UNCHANGED <<text, version, actions, init, queries, call>>

\* One thread making get_actions calls, one after the other
NextScan == Begin(1) \/ Iterate(1) \/ Return(1)

SpecScan == InitEdited /\ [][NextScan]_vars

\* Two threads making get_actions calls, their statements interleaved,
\* and no commit meanwhile
NextConc == \E t \in Threads : Begin(t) \/ Iterate(t) \/ Return(t)

SpecConc == InitEdited /\ [][NextConc]_vars

---------------------------------------------------------------------------
\* The iterations of the while loop still to run for a list of n entries
\* with the cursor at idx, if no entry were popped.
Remaining(n, idx) == Max(n - 1 - idx, 0)

\* refs is a subsequence of input: entries of input, in input's order
\* (input holds log positions in increasing order).
Subsequence(refs, input) ==
    /\ \A k \in DOMAIN refs : \E j \in DOMAIN input : input[j] = refs[k]
    /\ \A k, l \in DOMAIN refs : k < l => refs[k] < refs[l]

\* The statement-level call of one thread ends with what get_actions, the
\* whole call, computes: the same outcome and the same live log.
ScanAgrees ==
    thr[1].pc = "done" =>
        LET r == get_actions(thr[1].log0, thr[1].args[1], thr[1].args[2])
        IN  /\ thr[1].out = r.out
            /\ actions = r.objs

\* C18: the compaction scan terminates on every finite slice. In a call on
\* a slice of n entries, the iterations done plus the iterations still to
\* run never exceed n - 1 (each iteration advances the cursor or shortens
\* the slice, so the count still to run drops by at least one); the loop is
\* left with the cursor at or past the last index; and the list returned is
\* no longer than the input and holds entries of the input in their
\* original relative order.
C18_ScanTerminates ==
    LET th == thr[1]
        n == Len(th.input)
    IN  /\ th.iters + Remaining(Len(th.slice), th.idx) <= Max(n - 1, 0)
        /\ Len(th.slice) <= n
        /\ Subsequence(th.slice, th.input)
        /\ (th.pc = "done" /\ th.out.err = "none") =>
              /\ th.idx >= Len(th.slice) - 1
              /\ Len(th.out.val) = Len(th.slice)
              /\ \A k \in DOMAIN th.slice : th.out.val[k] = actions[th.slice[k]]

\* A finished call on three entries that ran two iterations, the first
\* without a merge and the second with one.
C18_Witness ==
    /\ thr[1].pc = "done"
    /\ Len(thr[1].input) = 3
    /\ thr[1].iters = 2
    /\ thr[1].slice = <<thr[1].input[1], thr[1].input[2]>>

\* C17: get_actions may safely run concurrently with itself. With two
\* threads interleaving the statements of their get_actions calls and no
\* commit meanwhile, every finished call has returned what a call with the
\* same arguments returns when run alone on the state it started from, and
\* once no call is running the live log is the log it was before the calls.
C17_ConcurrentQueriesSafe ==
    /\ \A t \in Threads :
         thr[t].pc = "done" =>
            thr[t].out = get_actions(thr[t].log0, thr[t].args[1], thr[t].args[2]).out
    /\ (\A t \in Threads : thr[t].pc # "opt") => actions = call.pre.actions

\* The first half of C17 alone, on a log no call has changed before the
\* two calls began: each of two overlapping calls returns what it returns
\* when run alone.
C17_ResultsAsAlone ==
    \A t \in Threads :
        (thr[t].pc = "done" /\ thr[t].log0 = call.pre.actions) =>
            thr[t].out = get_actions(thr[t].log0, thr[t].args[1], thr[t].args[2]).out

===========================================================================
